---- MODULE Spec2Model ----
(***************************************************************************)
(* A model of streamlit_app.py: the three cached loaders, the item-name    *)
(* variants and the image/supply lookups of main(), and the per-item       *)
(* statistics (last valid price, first valid price, min, max, percent      *)
(* change, moving average).                                                *)
(*                                                                         *)
(* Strings are sequences of one-character strings over Chars.  Prices are  *)
(* naturals, a missing observation (NaN in the data frame) is Gap, and a   *)
(* quotient is kept as an exact fraction [num, den].                       *)
(***************************************************************************)
EXTENDS Integers, Sequences, FiniteSets, TLC

VARIABLES
    \* ---- name reconciliation (main, lines 74-75, 264-283, 295)
    npc,          \* position in the run: "start", "supply", "image", "done"
    item,         \* the selected price column's name
    supply_dict,  \* result of load_supply_data
    img_dict,     \* result of load_image_data
    item_variants,\* the list built at lines 266-273
    img_url,      \* the image shown (line 286)
    supply,       \* the supply shown (line 295)
    \* ---- statistics of one selected column (main, lines 116-120, 159-294)
    spc,          \* position in the run
    df,           \* the price rows: [day, cell], day = timestamp.dt.date
    date_range,   \* the tuple st.date_input returned
    show_ma,      \* the "Show moving average" checkbox
    ma_period,    \* the slider's value, in hours
    filtered,     \* filtered_df[item]
    list_change,  \* calculate_price_change(df, item) (line 117)
    start_price,  \* line 172
    end_price,    \* line 173
    percent_change, \* line 176; NoneVal when nothing is shown
    ma,           \* line 211
    current_price, min_price, max_price,  \* lines 292-294
    \* ---- the cached price source (lines 35-41, 73)
    ppc,          \* "run" while this part is run
    now,          \* the clock, in seconds
    priceFile,    \* data/price_history.csv
    priceCache,   \* the entry st.cache_data(ttl=60) keeps for load_data()
    marked,       \* an earlier read, remembered to compare later reads with
    since,        \* executions of load_data's body after the marked read
    last,         \* the latest read
    \* ---- the cached supply and image sources (lines 12-33, 43-52, 74-75)
    apc,          \* "run" while this part is run
    supplyFile,   \* data/nft_supply_results.csv
    imgFile,      \* data/img.csv
    supplyCache,  \* the entry st.cache_data keeps for load_supply_data()
    imgCache,     \* the entry st.cache_data keeps for load_image_data()
    supplyExecs,  \* times load_supply_data's body was entered
    supplyReturns,\* times it returned
    imgExecs,     \* times load_image_data's body was entered
    firstSupply,  \* the first value load_supply_data() returned
    firstImg,     \* the first value load_image_data() returned
    run           \* the latest run of main()

nameVars == <<npc, item, supply_dict, img_dict, item_variants, img_url, supply>>
statVars == <<spc, df, date_range, show_ma, ma_period, filtered, list_change,
              start_price, end_price, percent_change, ma,
              current_price, min_price, max_price>>

priceVars == <<ppc, now, priceFile, priceCache, marked, since, last>>

auxVars == <<apc, supplyFile, imgFile, supplyCache, imgCache, supplyExecs,
             supplyReturns, imgExecs, firstSupply, firstImg, run>>

vars == <<nameVars, statVars, priceVars, auxVars>>

----------------------------------------------------------------------------
(* Bounds *)

MaxLen == 4          \* longest item name drawn
MaxImgLines == 2     \* data lines of img.csv
MaxSupplyRows == 1   \* data rows of nft_supply_results.csv
MaxRows == 4         \* rows of price_history.csv
MaxPrice == 2        \* largest price drawn
MaxHours == 2        \* largest moving-average period drawn (the slider allows 1..24)
MaxTime == 91        \* the clock stops here
MaxVersion == 2      \* contents the price file takes
MaxSince == 2        \* the count of executions saturates here
MaxExecs == 2        \* executions of load_supply_data's body followed

----------------------------------------------------------------------------
(* Strings *)

DQ == "\""
Chars == {"a", "A", " ", DQ}

RECURSIVE StringsUpTo(_)
StringsUpTo(n) ==
    IF n = 0 THEN {<<>>}
    ELSE LET S == StringsUpTo(n - 1)
         IN  S \cup {Append(s, c) : s \in {t \in S : Len(t) = n - 1}, c \in Chars}

Names == StringsUpTo(MaxLen)

IsSpace(c) == c = " "

\* str.lower()
LowerChar(c) == IF c = "A" THEN "a" ELSE c
Lower(s) == [i \in 1..Len(s) |-> LowerChar(s[i])]

\* str.upper() (used only to state the specification's variant list)
UpperChar(c) == IF c = "a" THEN "A" ELSE c
Upper(s) == [i \in 1..Len(s) |-> UpperChar(s[i])]

RECURSIVE LStrip(_, _)
LStrip(s, c) ==
    IF s # <<>> /\ Head(s) = c THEN LStrip(Tail(s), c) ELSE s

RECURSIVE RStrip(_, _)
RStrip(s, c) ==
    IF s # <<>> /\ s[Len(s)] = c THEN RStrip(SubSeq(s, 1, Len(s) - 1), c) ELSE s

\* str.strip(): leading and trailing whitespace removed
Strip(s) == RStrip(LStrip(s, " "), " ")

\* str.strip('"'): leading and trailing double quotes removed
StripQuote(s) == RStrip(LStrip(s, DQ), DQ)

\* str.split(): the maximal runs of non-whitespace characters, in order
RECURSIVE SplitFrom(_, _)
SplitFrom(s, cur) ==
    IF s = <<>> THEN (IF cur = <<>> THEN <<>> ELSE <<cur>>)
    ELSE IF IsSpace(Head(s))
         THEN (IF cur = <<>> THEN <<>> ELSE <<cur>>) \o SplitFrom(Tail(s), <<>>)
         ELSE SplitFrom(Tail(s), Append(cur, Head(s)))

Split(s) == SplitFrom(s, <<>>)

\* ' '.join(words)
RECURSIVE Join(_)
Join(words) ==
    IF words = <<>> THEN <<>>
    ELSE IF Len(words) = 1 THEN words[1]
    ELSE words[1] \o <<" ">> \o Join(Tail(words))

----------------------------------------------------------------------------
(* Dictionaries: functions whose domain is the set of keys *)

EmptyDict == <<>>

Put(d, k, v) == [x \in (DOMAIN d) \cup {k} |-> IF x = k THEN v ELSE d[x]]

\* dict.get(k, default)
Get(d, k, default) == IF k \in DOMAIN d THEN d[k] ELSE default

----------------------------------------------------------------------------
(* The auxiliary files *)

\* A file is [state, rows]: it does not exist ("missing"), it exists and
\* reading or parsing it fails ("unreadable"), or it holds rows ("ok")
Missing == [state |-> "missing", rows |-> <<>>]
Unreadable == [state |-> "unreadable", rows |-> <<>>]
FileOf(rows) == [state |-> "ok", rows |-> rows]

\* The spellings the auxiliary files use for their keys in this model: single
\* words and two words separated by one space, in either case, and a word
\* wrapped in double quotes
TableKeys ==
    { <<"a">>, <<"A">>, <<"a", " ", "a">>, <<"A", " ", "a">>, <<DQ, "a", DQ>> }

default_img == "default_img"
Urls == {"url1", "url2"}
NoUrl == "nourl"

\* A line of img.csv: the text before the first "https://" and the text from it
\* on; url = NoUrl for a line that holds no "https://"
ImgLine(prefix, url) == [prefix |-> prefix, url |-> url]
HeaderLine == ImgLine(<<>>, NoUrl)

RECURSIVE SeqsUpTo(_, _)
SeqsUpTo(S, n) ==
    IF n = 0 THEN {<<>>}
    ELSE LET P == SeqsUpTo(S, n - 1)
         IN  P \cup {Append(p, x) : p \in {q \in P : Len(q) = n - 1}, x \in S}

\* img.csv files over a set of keys: a header line, then data lines, each a
\* name, whitespace and a URL, or a name with no URL
ImgFilesOver(keys) ==
    {Missing, Unreadable} \cup
    {FileOf(<<HeaderLine>> \o body) :
        body \in SeqsUpTo({ImgLine(k \o <<" ">>, u) : k \in keys, u \in Urls}
                           \cup {ImgLine(k, NoUrl) : k \in keys},
                          MaxImgLines)}

MaxSupply == 2
SupplyRow(name, n) == [name |-> name, n |-> n]

\* nft_supply_results.csv files over a set of keys: the parsed data rows
SupplyFilesOver(keys) ==
    {Missing, Unreadable} \cup
    {FileOf(rows) :
        rows \in SeqsUpTo({SupplyRow(k, n) : k \in keys, n \in 1..MaxSupply},
                          MaxSupplyRows)}

----------------------------------------------------------------------------
(* The loader bodies.  A result is [raised, value, error]: raised = the call *)
(* ended with an exception, error = st.error was called.                    *)

Returned(v, e) == [raised |-> FALSE, value |-> v, error |-> e]
Raised == [raised |-> TRUE, value |-> EmptyDict, error |-> FALSE]

\* lines 18-26: one entry per line holding "https://", keyed by the stripped
\* text before it; a later line overwrites an earlier one
RECURSIVE ImgDictOf(_, _)
ImgDictOf(lines, d) ==
    IF lines = <<>> THEN d
    ELSE LET line == Head(lines)
         IN  ImgDictOf(Tail(lines),
                       IF line.url # NoUrl
                       THEN Put(d, Strip(line.prefix), line.url)
                       ELSE d)

load_image_data(file) ==
    IF file = Missing THEN Returned(EmptyDict, TRUE)
    ELSE IF file = Unreadable THEN Returned(EmptyDict, TRUE)
    ELSE Returned(ImgDictOf(Tail(file.rows), EmptyDict), FALSE)

\* dict(zip(names, supplies))
RECURSIVE DictZip(_, _)
DictZip(rows, d) ==
    IF rows = <<>> THEN d
    ELSE DictZip(Tail(rows), Put(d, Head(rows).name, Head(rows).n))

\* load_supply_data without its except clause
LoadSupplyNoExcept(file) ==
    IF file.state = "ok" THEN Returned(DictZip(file.rows, EmptyDict), FALSE)
    ELSE Raised

load_supply_data(file) ==
    IF file = Missing THEN Returned(EmptyDict, TRUE)
    ELSE IF file = Unreadable THEN Raised
    ELSE Returned(DictZip(file.rows, EmptyDict), FALSE)


----------------------------------------------------------------------------
(* st.cache_data: one entry per cached function (the functions take no      *)
(* arguments).  An entry is [full, value, storedAt].                        *)

NoEntry == [full |-> FALSE, value |-> EmptyDict, storedAt |-> 0]
Entry(v, t) == [full |-> TRUE, value |-> v, storedAt |-> t]

\* line 35
TTL == 60

\* An entry older than ttl is still served (expiry one tick late)
FreshLate(entry, ttl, t) == entry.full /\ t - entry.storedAt <= ttl

\* @st.cache_data(ttl=...): an entry is served while its age is below ttl
Fresh(entry, ttl, t) == entry.full /\ t - entry.storedAt < ttl

\* @st.cache_data: nothing is cached, every read runs the body
KeptNever(entry) == FALSE

\* @st.cache_data without ttl: an entry is served for the life of the process
Kept(entry) == entry.full

\* No read yet
NoRead == [done |-> FALSE, at |-> 0, file |-> Missing, raised |-> FALSE,
           value |-> EmptyDict, executed |-> FALSE, before |-> NoEntry,
           loadedAt |-> 0]

\* lines 36-41: the table and the file's modification time; each content of
\* the file stands for its rows and its modification time
load_data(file) ==
    IF file.state = "ok" THEN Returned(file.rows, FALSE) ELSE Raised

\* The part about the cached price source is not run
PriceIdle ==
    /\ ppc = "idle"
    /\ now = 0
    /\ priceFile = Missing
    /\ priceCache = NoEntry
    /\ marked = NoRead
    /\ since = 0
    /\ last = NoRead

\* No value returned yet
NoValue == [set |-> FALSE, value |-> EmptyDict]
Value(v) == [set |-> TRUE, value |-> v]

\* The columns of the price table whose supply the item list shows
PriceItems == {<<"a">>, <<"A">>}

\* No run of main() yet
NoRun == [done |-> FALSE, supplyMissing |-> FALSE, supplyExecuted |-> FALSE,
          supply |-> Returned(EmptyDict, FALSE), imgRead |-> FALSE,
          img |-> EmptyDict, rendered |-> FALSE,
          shown |-> [i \in PriceItems |-> 0]]

\* The part about the cached supply and image sources is not run
AuxIdle ==
    /\ apc = "idle"
    /\ supplyFile = Missing
    /\ imgFile = Missing
    /\ supplyCache = NoEntry
    /\ imgCache = NoEntry
    /\ supplyExecs = 0
    /\ supplyReturns = 0
    /\ imgExecs = 0
    /\ firstSupply = NoValue
    /\ firstImg = NoValue
    /\ run = NoRun

----------------------------------------------------------------------------
(* Name variants and lookups of main() *)

\* line 265
ItemClean(it) == Join(Split(it))

\* lines 266-273
ItemVariants(it) ==
    << it,
       ItemClean(it),
       Lower(ItemClean(it)),
       StripQuote(it),
       StripQuote(Strip(it)),
       Strip(Lower(it)) >>

\* lines 276-283: the first variant that is a key of img_dict, else default_img
RECURSIVE FirstHit(_, _, _)
FirstHit(variants, d, default) ==
    IF variants = <<>> THEN default
    ELSE IF Head(variants) \in DOMAIN d THEN d[Head(variants)]
    ELSE FirstHit(Tail(variants), d, default)

ImageFor(it, d) == FirstHit(ItemVariants(it), d, default_img)

\* line 295 (and lines 119, 206)
SupplyFor(it, d) == Get(d, it, 0)


----------------------------------------------------------------------------
(* Numbers: a Python value is None, a finite number kept as the exact       *)
(* fraction num/den, or one of the floats inf and nan                       *)

NoneVal == [kind |-> "none", num |-> 0, den |-> 1]
NaNVal == [kind |-> "nan", num |-> 0, den |-> 1]
InfVal == [kind |-> "inf", num |-> 0, den |-> 1]
Frac(n, d) == [kind |-> "num", num |-> n, den |-> d]
Num(n) == Frac(n, 1)

\* A cell of a price column: a price, or NaN where nothing was observed
Gap == [nan |-> TRUE, v |-> 0]
Price(v) == [nan |-> FALSE, v |-> v]
IsGap(c) == c.nan

\* Series.dropna()
NotGap(c) == ~IsGap(c)
DropNa(col) == SelectSeq(col, NotGap)

\* get_last_valid_price without its dropna(): the last cell, valid or not
LastPriceNoDropNa(col) ==
    IF Len(col) > 0
    THEN (IF IsGap(col[Len(col)]) THEN NaNVal ELSE Num(col[Len(col)].v))
    ELSE NoneVal

\* lines 55-60
get_last_valid_price(col) ==
    LET valid_prices == DropNa(col)
    IN  IF Len(valid_prices) > 0
        THEN Num(valid_prices[Len(valid_prices)].v)
        ELSE NoneVal

\* lines 172, 239: col.dropna().iloc[0] if not col.dropna().empty else None
FirstValidPrice(col) ==
    LET valid_prices == DropNa(col)
    IN  IF valid_prices # <<>> THEN Num(valid_prices[1].v) ELSE NoneVal

\* ((end_price - start_price) / start_price) * 100 on numpy scalars: a zero
\* divisor gives inf or nan (with a warning), never an exception
PercentOf(start, end) ==
    IF start # 0 THEN Frac((end - start) * 100, start)
    ELSE IF end - start = 0 THEN NaNVal
    ELSE InfVal

\* lines 62-69
calculate_price_change(col) ==
    LET valid_prices == DropNa(col)
    IN  IF Len(valid_prices) >= 2
        THEN PercentOf(valid_prices[1].v, valid_prices[Len(valid_prices)].v)
        ELSE Num(0)

\* lines 175-176: the percentage is computed only when both prices are not None
HeaderPercentOf(start, end) ==
    IF start # NoneVal /\ end # NoneVal THEN PercentOf(start.num, end.num)
    ELSE NoneVal

\* Series.min() / Series.max() of a column without gaps
RECURSIVE FoldMin(_, _)
FoldMin(col, m) ==
    IF col = <<>> THEN m
    ELSE FoldMin(Tail(col), IF Head(col).v < m THEN Head(col).v ELSE m)

RECURSIVE FoldMax(_, _)
FoldMax(col, m) ==
    IF col = <<>> THEN m
    ELSE FoldMax(Tail(col), IF Head(col).v > m THEN Head(col).v ELSE m)

\* lines 293-294
MinPriceOf(col) ==
    IF DropNa(col) # <<>> THEN Num(FoldMin(DropNa(col), DropNa(col)[1].v))
    ELSE NoneVal
MaxPriceOf(col) ==
    IF DropNa(col) # <<>> THEN Num(FoldMax(DropNa(col), DropNa(col)[1].v))
    ELSE NoneVal

\* lines 165-166, 196-197: the rows whose date lies in [date_range[0], date_range[1]]
InRange(r, range) == r.day >= range[1] /\ r.day <= range[2]
Mask(rows, range) ==
    LET Keep(r) == InRange(r, range) IN SelectSeq(rows, Keep)

ColumnOf(rows) == [i \in 1..Len(rows) |-> rows[i].cell]

\* line 210
ObservationsPerHour == 2
WindowOf(period) == period * ObservationsPerHour

\* Series.rolling(window).mean(), min_periods = window: one pass keeping the
\* sum and the count of the observations in the trailing window; a position
\* whose window holds fewer than min_periods observations is NaN
RECURSIVE RollFrom(_, _, _, _, _, _)
RollFrom(col, window, minp, i, sum, nobs) ==
    IF i > Len(col) THEN <<>>
    ELSE LET add == col[i]
             sum1 == IF IsGap(add) THEN sum ELSE sum + add.v
             nobs1 == IF IsGap(add) THEN nobs ELSE nobs + 1
             old == i - window
             drop == old >= 1 /\ ~IsGap(col[IF old >= 1 THEN old ELSE 1])
             sum2 == IF drop THEN sum1 - col[old].v ELSE sum1
             nobs2 == IF drop THEN nobs1 - 1 ELSE nobs1
         IN  <<IF nobs2 >= minp THEN Frac(sum2, nobs2) ELSE NaNVal>>
             \o RollFrom(col, window, minp, i + 1, sum2, nobs2)

\* rolling(window, min_periods=1): partial windows are averaged too
RollingMeanPartial(col, window) == RollFrom(col, window, 1, 1, 0, 0)

RollingMean(col, window) == RollFrom(col, window, window, 1, 0, 0)

----------------------------------------------------------------------------
(* One run of main() in a fresh process for one selected item *)

Items == Names \ {<<>>}

\* The statistics part is not run
StatsIdle ==
    /\ spc = "idle"
    /\ df = <<>>
    /\ date_range = <<>>
    /\ show_ma = FALSE
    /\ ma_period = 1
    /\ filtered = <<>>
    /\ list_change = NoneVal
    /\ start_price = NoneVal
    /\ end_price = NoneVal
    /\ percent_change = NoneVal
    /\ ma = <<>>
    /\ current_price = NoneVal
    /\ min_price = NoneVal
    /\ max_price = NoneVal

NamesInit ==
    /\ StatsIdle
    /\ PriceIdle
    /\ AuxIdle
    /\ npc = "start"
    /\ item \in Items
    /\ supply_dict = EmptyDict
    /\ img_dict = EmptyDict
    /\ item_variants = <<>>
    /\ img_url = NoUrl
    /\ supply = 0

\* line 74, nothing cached yet
ReadSupplyOk ==
    /\ npc = "start"
    /\ \E file \in SupplyFilesOver(TableKeys) :
          /\ ~load_supply_data(file).raised
          /\ supply_dict' = load_supply_data(file).value
    /\ npc' = "supply"
    /\ UNCHANGED <<item, img_dict, item_variants, img_url, supply, statVars, priceVars, auxVars>>

\* line 74, the exception leaves main()
ReadSupplyRaises ==
    /\ npc = "start"
    /\ \E file \in SupplyFilesOver(TableKeys) : load_supply_data(file).raised
    /\ npc' = "failed"
    /\ UNCHANGED <<item, supply_dict, img_dict, item_variants, img_url, supply, statVars, priceVars, auxVars>>

\* line 75, nothing cached yet
ReadImage ==
    /\ npc = "supply"
    /\ \E file \in ImgFilesOver(TableKeys) :
          img_dict' = load_image_data(file).value
    /\ npc' = "image"
    /\ UNCHANGED <<item, supply_dict, item_variants, img_url, supply, statVars, priceVars, auxVars>>

\* lines 264-295
Reconcile ==
    /\ npc = "image"
    /\ item_variants' = ItemVariants(item)
    /\ img_url' = ImageFor(item, img_dict)
    /\ supply' = SupplyFor(item, supply_dict)
    /\ npc' = "done"
    /\ UNCHANGED <<item, supply_dict, img_dict, statVars, priceVars, auxVars>>

NamesNext == ReadSupplyOk \/ ReadSupplyRaises \/ ReadImage \/ Reconcile

SpecNames == NamesInit /\ [][NamesNext]_vars


----------------------------------------------------------------------------
(* One run of main() for one selected column of the price table *)

\* The calendar dates the rows fall on
Days == {0, 1}
Cells == {Gap} \cup {Price(v) : v \in 0..MaxPrice}
PriceRow(day, cell) == [day |-> day, cell |-> cell]

\* Price tables: at least one row, timestamps ascending
Frames ==
    {f \in SeqsUpTo({PriceRow(d, c) : d \in Days, c \in Cells}, MaxRows) :
        /\ f # <<>>
        /\ \A i \in 1..(Len(f) - 1) : f[i].day <= f[i + 1].day}

\* st.date_input with min_value and max_value the first and last date of df:
\* one date (the selection is incomplete) or two dates in order
DateRanges(rows) ==
    LET lo == rows[1].day
        hi == rows[Len(rows)].day
    IN  {<<a>> : a \in lo..hi} \cup
        {r \in (lo..hi) \X (lo..hi) : r[1] <= r[2]}

\* The name reconciliation part is not run
NamesIdle ==
    /\ npc = "idle"
    /\ item = <<"a">>
    /\ supply_dict = EmptyDict
    /\ img_dict = EmptyDict
    /\ item_variants = <<>>
    /\ img_url = NoUrl
    /\ supply = 0

StatsInit ==
    /\ NamesIdle
    /\ PriceIdle
    /\ AuxIdle
    /\ spc = "start"
    /\ df \in Frames
    /\ date_range = <<>>
    /\ show_ma = FALSE
    /\ ma_period = 1
    /\ filtered = <<>>
    /\ list_change = NoneVal
    /\ start_price = NoneVal
    /\ end_price = NoneVal
    /\ percent_change = NoneVal
    /\ ma = <<>>
    /\ current_price = NoneVal
    /\ min_price = NoneVal
    /\ max_price = NoneVal

\* lines 116-120: the change shown in the item's list entry
ListChange ==
    /\ spc = "start"
    /\ list_change' = calculate_price_change(ColumnOf(df))
    /\ spc' = "listed"
    /\ UNCHANGED <<df, date_range, show_ma, ma_period, filtered, start_price,
                   end_price, percent_change, ma, current_price, min_price,
                   max_price, nameVars, priceVars, auxVars>>

\* lines 140-149: the sidebar widgets
Widgets ==
    /\ spc = "listed"
    /\ date_range' \in DateRanges(df)
    /\ \/ /\ show_ma' = TRUE
          /\ ma_period' \in 1..MaxHours
       \/ /\ show_ma' = FALSE
          /\ ma_period' = ma_period
    /\ spc' = "widgets"
    /\ UNCHANGED <<df, filtered, list_change, start_price, end_price,
                   percent_change, ma, current_price, min_price, max_price,
                   nameVars, priceVars, auxVars>>

\* lines 159-161
IncompleteRange ==
    /\ spc = "widgets"
    /\ Len(date_range) # 2
    /\ spc' = "returned"
    /\ UNCHANGED <<df, date_range, show_ma, ma_period, filtered, list_change,
                   start_price, end_price, percent_change, ma, current_price,
                   min_price, max_price, nameVars, priceVars, auxVars>>

\* lines 164-176
HeaderPercent ==
    /\ spc = "widgets"
    /\ Len(date_range) = 2
    /\ filtered' = ColumnOf(Mask(df, date_range))
    /\ start_price' = FirstValidPrice(filtered')
    /\ end_price' = get_last_valid_price(filtered')
    /\ percent_change' = HeaderPercentOf(start_price', end_price')
    /\ spc' = "header"
    /\ UNCHANGED <<df, date_range, show_ma, ma_period, list_change, ma,
                   current_price, min_price, max_price, nameVars, priceVars, auxVars>>

\* lines 195-218, the checkbox ticked
MovingAverage ==
    /\ spc = "header"
    /\ show_ma
    /\ ma' = RollingMean(ColumnOf(Mask(df, date_range)), WindowOf(ma_period))
    /\ spc' = "chart"
    /\ UNCHANGED <<df, date_range, show_ma, ma_period, filtered, list_change,
                   start_price, end_price, percent_change, current_price,
                   min_price, max_price, nameVars, priceVars, auxVars>>

\* lines 195-207, the checkbox not ticked
NoMovingAverage ==
    /\ spc = "header"
    /\ ~show_ma
    /\ spc' = "chart"
    /\ UNCHANGED <<df, date_range, show_ma, ma_period, filtered, list_change,
                   start_price, end_price, percent_change, ma, current_price,
                   min_price, max_price, nameVars, priceVars, auxVars>>

\* lines 235-294
Statistics ==
    /\ spc = "chart"
    /\ start_price' = FirstValidPrice(filtered)
    /\ end_price' = get_last_valid_price(filtered)
    /\ current_price' = get_last_valid_price(filtered)
    /\ min_price' = MinPriceOf(filtered)
    /\ max_price' = MaxPriceOf(filtered)
    /\ spc' = "done"
    /\ UNCHANGED <<df, date_range, show_ma, ma_period, filtered, list_change,
                   percent_change, ma, nameVars, priceVars, auxVars>>

StatsNext ==
    \/ ListChange \/ Widgets \/ IncompleteRange \/ HeaderPercent
    \/ MovingAverage \/ NoMovingAverage \/ Statistics

SpecStats == StatsInit /\ [][StatsNext]_vars


----------------------------------------------------------------------------
(* Reads of the cached price source over time (line 73), the file changing  *)
(* out of band                                                              *)

\* The instants the clock takes: around every half TTL
Instants == {t \in 0..MaxTime : t % (TTL \div 2) \in {0, 1, (TTL \div 2) - 1}}

PriceFiles == {Missing, Unreadable} \cup {FileOf(<<v>>) : v \in 1..MaxVersion}

PriceInit ==
    /\ NamesIdle
    /\ StatsIdle
    /\ AuxIdle
    /\ ppc = "run"
    /\ now = 0
    /\ priceFile \in PriceFiles
    /\ priceCache = NoEntry
    /\ marked = NoRead
    /\ since = 0
    /\ last = NoRead

Tick ==
    /\ ppc = "run"
    /\ \E t \in Instants : t > now /\ now' = t
    /\ UNCHANGED <<priceFile, priceCache, marked, since, last, ppc,
                   nameVars, statVars, auxVars>>

\* the file is rewritten, removed or damaged by its maintainer
ChangePriceFile ==
    /\ ppc = "run"
    /\ \E f \in PriceFiles : f # priceFile /\ priceFile' = f
    /\ UNCHANGED <<now, priceCache, marked, since, last, ppc,
                   nameVars, statVars, auxVars>>

Bump(n) == IF n < MaxSince THEN n + 1 ELSE n

\* line 73: df, _ = load_data() through the cache
ReadPrice(mark) ==
    /\ ppc = "run"
    /\ LET hit == Fresh(priceCache, TTL, now)
           res == IF hit THEN Returned(priceCache.value, FALSE)
                  ELSE load_data(priceFile)
           entry == IF hit \/ res.raised THEN priceCache
                    ELSE Entry(res.value, now)
           read == [done |-> TRUE, at |-> now, file |-> priceFile,
                    raised |-> res.raised, value |-> res.value,
                    executed |-> ~hit, before |-> priceCache,
                    loadedAt |-> entry.storedAt]
       IN  /\ priceCache' = entry
           /\ last' = read
           /\ IF mark
              THEN marked' = read /\ since' = 0
              ELSE /\ marked' = marked
                   /\ since' = IF hit \/ ~marked.done THEN since ELSE Bump(since)
    /\ UNCHANGED <<now, priceFile, ppc, nameVars, statVars, auxVars>>

PriceNext ==
    \/ Tick
    \/ ChangePriceFile
    \/ ReadPrice(TRUE)
    \/ ReadPrice(FALSE)

SpecPrice == PriceInit /\ [][PriceNext]_vars


----------------------------------------------------------------------------
(* Runs of main() in one process, the supply and image files changing out   *)
(* of band: the cached reads of lines 74-75 and the item list of lines      *)
(* 116-120                                                                  *)

AuxSupplyFiles ==
    {Missing, Unreadable, FileOf(<<>>)} \cup
    {FileOf(<<SupplyRow(k, n)>>) : k \in PriceItems, n \in 1..MaxSupply}

AuxImgFiles ==
    {Missing, Unreadable} \cup
    {FileOf(<<HeaderLine, ImgLine(<<"a", " ">>, u)>>) : u \in Urls}

AuxInit ==
    /\ NamesIdle
    /\ StatsIdle
    /\ PriceIdle
    /\ apc = "run"
    /\ supplyFile \in AuxSupplyFiles
    /\ imgFile \in AuxImgFiles
    /\ supplyCache = NoEntry
    /\ imgCache = NoEntry
    /\ supplyExecs = 0
    /\ supplyReturns = 0
    /\ imgExecs = 0
    /\ firstSupply = NoValue
    /\ firstImg = NoValue
    /\ run = NoRun

ChangeSupplyFile ==
    /\ apc = "run"
    /\ \E f \in AuxSupplyFiles : f # supplyFile /\ supplyFile' = f
    /\ UNCHANGED <<apc, imgFile, supplyCache, imgCache, supplyExecs,
                   supplyReturns, imgExecs, firstSupply, firstImg, run,
                   nameVars, statVars, priceVars>>

ChangeImgFile ==
    /\ apc = "run"
    /\ \E f \in AuxImgFiles : f # imgFile /\ imgFile' = f
    /\ UNCHANGED <<apc, supplyFile, supplyCache, imgCache, supplyExecs,
                   supplyReturns, imgExecs, firstSupply, firstImg, run,
                   nameVars, statVars, priceVars>>

\* lines 116-120: the supply shown with every item of the list
ShownSupply(d) == [i \in PriceItems |-> SupplyFor(i, d)]

\* One run of main(): lines 74, 75 and 116-120.  An exception out of
\* load_supply_data() ends the run.
RunMain ==
    /\ apc = "run"
    /\ LET sHit == Kept(supplyCache)
           sRes == IF sHit THEN Returned(supplyCache.value, FALSE)
                   ELSE load_supply_data(supplyFile)
           iHit == Kept(imgCache)
           iRes == IF iHit THEN Returned(imgCache.value, FALSE)
                   ELSE load_image_data(imgFile)
       IN  /\ sHit \/ supplyExecs < MaxExecs
           /\ supplyExecs' = IF sHit THEN supplyExecs ELSE supplyExecs + 1
           /\ IF sRes.raised
              THEN /\ run' = [NoRun EXCEPT !.done = TRUE,
                                           !.supplyMissing = (supplyFile = Missing),
                                           !.supplyExecuted = TRUE,
                                           !.supply = sRes]
                   /\ UNCHANGED <<supplyCache, imgCache, supplyReturns,
                                  imgExecs, firstSupply, firstImg>>
              ELSE /\ supplyCache' = IF sHit THEN supplyCache
                                     ELSE Entry(sRes.value, 0)
                   /\ supplyReturns' = IF sHit THEN supplyReturns
                                       ELSE supplyReturns + 1
                   /\ firstSupply' = IF firstSupply.set THEN firstSupply
                                     ELSE Value(sRes.value)
                   /\ imgCache' = IF iHit THEN imgCache ELSE Entry(iRes.value, 0)
                   /\ imgExecs' = IF iHit THEN imgExecs ELSE imgExecs + 1
                   /\ firstImg' = IF firstImg.set THEN firstImg
                                  ELSE Value(iRes.value)
                   /\ run' = [done |-> TRUE,
                              supplyMissing |-> (supplyFile = Missing),
                              supplyExecuted |-> ~sHit,
                              supply |-> sRes,
                              imgRead |-> TRUE,
                              img |-> iRes.value,
                              rendered |-> TRUE,
                              shown |-> ShownSupply(sRes.value)]
    /\ UNCHANGED <<apc, supplyFile, imgFile, nameVars, statVars, priceVars>>

AuxNext == ChangeSupplyFile \/ ChangeImgFile \/ RunMain

SpecAux == AuxInit /\ [][AuxNext]_vars

----------------------------------------------------------------------------
(* Claims about the cached supply and image sources *)

\* C8 as stated: whenever main() runs while the supply file is missing,
\* load_supply_data() returns an empty table without raising and every item
\* of the list is shown with supply 0.
C8_MissingSupplyFileShowsZero ==
    (run.done /\ run.supplyMissing) =>
        /\ ~run.supply.raised
        /\ run.supply.value = EmptyDict
        /\ run.rendered
        /\ \A i \in PriceItems : run.shown[i] = 0

\* C8 amended: when the supply file is missing at the time load_supply_data's
\* body runs (nothing is cached yet), it returns an empty table, reports the
\* error and does not raise, and every item of the list is shown with supply 0.
C8_MissingSupplyFileAtLoadShowsZero ==
    (run.done /\ run.supplyMissing /\ run.supplyExecuted) =>
        /\ ~run.supply.raised
        /\ run.supply.error
        /\ run.supply.value = EmptyDict
        /\ run.rendered
        /\ \A i \in PriceItems : run.shown[i] = 0

\* C8 witness: a run that loaded the supply while the file was missing
C8_Witness ==
    /\ run.done /\ run.supplyMissing /\ run.supplyExecuted
    /\ run.rendered
    /\ \A i \in PriceItems : run.shown[i] = 0

\* What every read returns is what the first read returned
FirstValueServed ==
    /\ (run.done /\ ~run.supply.raised) =>
          (firstSupply.set /\ run.supply.value = firstSupply.value)
    /\ run.imgRead => (firstImg.set /\ run.img = firstImg.value)

\* C10 as stated: the body of load_supply_data and the body of
\* load_image_data each run at most once in the process, and every read
\* returns what the first read returned.
C10_BodiesRunAtMostOnce ==
    /\ supplyExecs <= 1
    /\ imgExecs <= 1
    /\ FirstValueServed

\* C10 amended: the body of load_supply_data and the body of load_image_data
\* each return at most once in the process (a run of load_supply_data's body
\* that raises caches nothing and the next read runs it again), and every
\* read that returns gives what the first returned.
C10_BodiesReturnAtMostOnce ==
    /\ supplyReturns <= 1
    /\ imgExecs <= 1
    /\ FirstValueServed

\* C10 witness: the first read returned the empty table of a missing file,
\* the file has appeared since, and a later read still returned it
C10_Witness ==
    /\ run.done /\ ~run.supplyExecuted /\ ~run.supplyMissing
    /\ supplyFile.state = "ok" /\ supplyFile.rows # <<>>
    /\ firstSupply.set /\ firstSupply.value = EmptyDict
    /\ run.supply.value = EmptyDict
    /\ supplyReturns = 1

----------------------------------------------------------------------------
(* Claims about the cached price source *)

\* The latest read ran load_data's body exactly when the cache held no entry
\* or an entry of age TTL or more, and then returned what the file held
ReadLoadsOnExpiry ==
    last.done =>
        /\ last.executed <=>
              (~last.before.full \/ last.at - last.before.storedAt >= TTL)
        /\ (last.executed /\ ~last.raised) =>
              (last.file = FileOf(last.value) /\ last.loadedAt = last.at)
        /\ ~last.executed =>
              (~last.raised /\ last.value = last.before.value
               /\ last.loadedAt = last.before.storedAt)

\* C1 as stated: any two reads less than TTL apart return the same value and
\* run load_data's body at most once between them, and a read runs the body
\* exactly when the entry is missing or of age TTL or more.
C1_ReadsWithinTtlApartAgree ==
    /\ (marked.done /\ last.done /\ ~marked.raised /\ ~last.raised
        /\ last.at - marked.at < TTL)
          => /\ last.value = marked.value
             /\ (IF marked.executed THEN 1 ELSE 0) + since <= 1
    /\ ReadLoadsOnExpiry

\* C1 amended: a read made less than TTL after the load that served an
\* earlier read returns that read's value, whatever happened to the file, and
\* load_data's body has not run in between; a read runs the body exactly once
\* when the entry is missing or of age TTL or more, and not otherwise.
C1_ReadsUnderOneLoadAgree ==
    /\ (marked.done /\ last.done /\ ~marked.raised
        /\ last.at - marked.loadedAt < TTL)
          => (~last.raised /\ last.value = marked.value /\ since = 0)
    /\ ReadLoadsOnExpiry

\* C1 witness: a read at age TTL - 1 served the cached value although the
\* file had changed, and the next read, at age TTL, loaded the new content
C1_Witness ==
    /\ marked.done /\ ~marked.executed
    /\ marked.at - marked.loadedAt = TTL - 1
    /\ marked.file.state = "ok" /\ marked.file # FileOf(marked.value)
    /\ last.done /\ last.executed /\ ~last.raised
    /\ last.before.full /\ last.at - last.before.storedAt = TTL
    /\ last.value # marked.value
    /\ since = 1

----------------------------------------------------------------------------
(* Claims about the name variants and the lookups *)

NoDuplicates(q) == \A i, j \in 1..Len(q) : q[i] = q[j] => i = j

RECURSIVE Dedup(_, _)
Dedup(q, seen) ==
    IF q = <<>> THEN <<>>
    ELSE IF Head(q) \in seen THEN Dedup(Tail(q), seen)
    ELSE <<Head(q)>> \o Dedup(Tail(q), seen \cup {Head(q)})

\* The six variants the specification requires, in its priority order
RequiredVariants(it) ==
    << it,
       Join(Split(it)),
       Upper(Join(Split(it))),
       Lower(Join(Split(it))),
       StripQuote(it),
       StripQuote(Strip(it)) >>

\* q probed against d in order: the value of the first element that is a key,
\* default when none is
IsFirstHit(r, q, d, default) ==
    \/ /\ \A i \in 1..Len(q) : q[i] \notin DOMAIN d
       /\ r = default
    \/ \E i \in 1..Len(q) :
          /\ q[i] \in DOMAIN d
          /\ \A j \in 1..(i - 1) : q[j] \notin DOMAIN d
          /\ r = d[q[i]]

\* C3: once the run has reconciled the item, the supply shown and the image
\* shown are each the value of the first of the item's variants that is a key
\* of the table, and 0 / the fallback URL when no variant is a key.
C3_BothTablesProbedByVariants ==
    npc = "done" =>
        /\ IsFirstHit(img_url, item_variants, img_dict, default_img)
        /\ IsFirstHit(supply, item_variants, supply_dict, 0)

\* Two names spell the same item up to letter case and whitespace
SameItem(x, y) == Lower(Join(Split(x))) = Lower(Join(Split(y)))

\* C4: when each auxiliary table holds exactly one row, keyed k, every item
\* name that differs from k only in letter case or whitespace is shown with
\* that row's supply and that row's image.
C4_CaseWhitespaceTolerant ==
    npc = "done" =>
        \A k \in TableKeys :
            (SameItem(item, k) /\ DOMAIN supply_dict = {k} /\ DOMAIN img_dict = {k})
                => (supply = supply_dict[k] /\ img_url = img_dict[k])

\* C9: the variant sequence is non-empty, has no string twice, starts with
\* the raw name, is the specification's six variants in priority order
\* (repeats dropped), and the variants of any produced variant start with it.
C9_VariantSequenceAsSpecified ==
    npc = "done" =>
        /\ item_variants # <<>>
        /\ NoDuplicates(item_variants)
        /\ item_variants[1] = item
        /\ item_variants = Dedup(RequiredVariants(item), {})
        /\ \A i \in 1..Len(item_variants) :
              ItemVariants(item_variants[i])[1] = item_variants[i]

----------------------------------------------------------------------------
(* Claims about the statistics *)

\* The rows of df inside the date window, and those of them that hold a price
InWindow == {i \in 1..Len(df) : date_range[1] <= df[i].day /\ df[i].day <= date_range[2]}
ValidInWindow == {i \in InWindow : ~IsGap(df[i].cell)}
ValidAnywhere == {i \in 1..Len(df) : ~IsGap(df[i].cell)}

FirstOf(S) == CHOOSE i \in S : \A j \in S : i <= j
LastOf(S) == CHOOSE i \in S : \A j \in S : j <= i

\* r is (last - first) / first * 100 over the rows V of df when V is not
\* empty and its first price is not 0, and absent otherwise
IsPercentChange(r, V) ==
    IF V # {} /\ df[FirstOf(V)].cell.v # 0
    THEN /\ r.kind = "num"
         /\ r.den # 0
         /\ r.num * df[FirstOf(V)].cell.v
              = (df[LastOf(V)].cell.v - df[FirstOf(V)].cell.v) * 100 * r.den
    ELSE r = NoneVal

\* C5: the percent change shown in the header (over the date window) and the
\* one shown in the item list (over the whole table) are (last - first) /
\* first * 100 when a first and a last valid price exist and the first is not
\* 0, and absent in every other case.
C5_PercentChangeAbsentWhenUndefined ==
    spc = "done" =>
        /\ IsPercentChange(percent_change, ValidInWindow)
        /\ IsPercentChange(list_change, ValidAnywhere)

RECURSIVE SumCells(_, _, _)
SumCells(col, lo, hi) ==
    IF lo > hi THEN 0 ELSE col[lo].v + SumCells(col, lo + 1, hi)

\* C6: the moving average has one position per filtered row; with w =
\* ma_period * 2, position p is absent when p < w or a cell among the w cells
\* ending at p is a gap, and is otherwise the mean of those w cells.
C6_MovingAverageFullWindowsOnly ==
    (spc \in {"chart", "done"} /\ show_ma) =>
        LET w == ma_period * ObservationsPerHour
        IN  /\ Len(filtered) = Cardinality(InWindow)
            /\ Len(ma) = Len(filtered)
            /\ \A p \in 1..Len(ma) :
                 IF p < w \/ \E q \in (p - w + 1)..p : q >= 1 /\ IsGap(filtered[q])
                 THEN ma[p] = NaNVal
                 ELSE /\ ma[p].kind = "num"
                      /\ ma[p].den # 0
                      /\ ma[p].num * w = SumCells(filtered, p - w + 1, p) * ma[p].den

\* C6 witness: four filtered rows without a gap and a window of four rows:
\* positions 1-3 are absent and position 4 is a number
C6_Witness ==
    /\ spc = "done"
    /\ show_ma
    /\ ma_period = 2
    /\ filtered = <<Price(1), Price(2), Price(2), Price(1)>>
    /\ ma[1] = NaNVal /\ ma[2] = NaNVal /\ ma[3] = NaNVal
    /\ ma[4].kind = "num" /\ ma[4].num * 2 = 3 * ma[4].den

\* C7: over the rows in the inclusive date window, the last valid price is
\* the last non-gap cell, the first valid price the first non-gap cell, and
\* the minimum and maximum range over the non-gap cells; all four are None,
\* not 0, when the window holds no non-gap cell.
C7_GapTolerantStatistics ==
    spc = "done" =>
        IF ValidInWindow = {}
        THEN /\ current_price = NoneVal /\ end_price = NoneVal
             /\ start_price = NoneVal
             /\ min_price = NoneVal /\ max_price = NoneVal
        ELSE /\ current_price = Num(df[LastOf(ValidInWindow)].cell.v)
             /\ end_price = current_price
             /\ start_price = Num(df[FirstOf(ValidInWindow)].cell.v)
             /\ \E i \in ValidInWindow : min_price = Num(df[i].cell.v)
             /\ \E i \in ValidInWindow : max_price = Num(df[i].cell.v)
             /\ \A i \in ValidInWindow :
                  /\ min_price.num <= df[i].cell.v
                  /\ df[i].cell.v <= max_price.num

\* C7 witness: the window holds [1, gap, gap, 2]
C7_Witness ==
    /\ spc = "done"
    /\ filtered = <<Price(1), Gap, Gap, Price(2)>>
    /\ start_price = Num(1) /\ current_price = Num(2)
    /\ min_price = Num(1) /\ max_price = Num(2)

====
